---- MODULE Spec2Model ----
(***************************************************************************)
(* Phyton: a Python front end that rewrites misspelled keywords before     *)
(* executing the code.  This module models PhytonInterpreter of phyton.py: *)
(* the keyword table, the operations that change it, fix_spelling with the *)
(* regular-expression substitution it is built on, and execute with its    *)
(* except clauses.  The fuzzy matcher and the option corrector, which      *)
(* phyton.py does not have, follow sections 4.3 to 4.5 of the design.      *)
(*                                                                         *)
(* Python strings are TLA+ strings; a character is a string of length 1.   *)
(* Python lists are objects with identity: they live in `heap` and the     *)
(* table holds references to them, as the dict of the program does.        *)
(***************************************************************************)
EXTENDS Integers, Sequences, FiniteSets, TLC

VARIABLES
  keyword_mappings,  \* self.keyword_mappings: the dict, as the sequence of its items in insertion order, each <<key, list reference>>
  heap,              \* the list objects: reference -> sequence of strings
  held,              \* references to list objects the caller holds (lists it passed in, lists returned to it)
  call,              \* the last call made on the interpreter, with its arguments and its result
  before,            \* the value of the table when that call began
  changes,           \* how many calls have changed the dict or a list object
  fuzzy_matching,    \* self.fuzzy_matching: whether near misses of keywords are corrected too
  argv,              \* sys.argv[1:]: the command line of the process
  pc,                \* where the process is: "imported", "main", "prompt" or "exited"
  multi_line_buffer, \* multi_line_buffer of interactive_mode
  typed,             \* what input() has delivered so far: lines, interrupts, end of input
  io,                \* what the process has done, in order: files opened and what reading them gave, prompts, prints, runs of corrected text
  executed,          \* the texts execute has been called on by the process, in order
  globals            \* globals() of the module: the names the executed code has bound

\* The process around the interpreter: its command line, its terminal and
\* the namespace the executed code runs in.
shell == <<argv, pc, multi_line_buffer, typed, io, executed, globals>>

vars == <<keyword_mappings, heap, held, call, before, changes, fuzzy_matching,
          argv, pc, multi_line_buffer, typed, io, executed, globals>>

----------------------------------------------------------------------------
(* Strings *)

CharAt(s, i) == SubSeq(s, i, i)

UpperLetters == {"A","B","C","D","E","F","G","H","I","J","K","L","M",
                 "N","O","P","Q","R","S","T","U","V","W","X","Y","Z"}
LowerLetters == {"a","b","c","d","e","f","g","h","i","j","k","l","m",
                 "n","o","p","q","r","s","t","u","v","w","x","y","z"}
Digits == {"0","1","2","3","4","5","6","7","8","9"}

\* The characters \w matches, among the characters of the model.
WordChars == UpperLetters \cup LowerLetters \cup Digits \cup {"_"}

IsWordChar(ch) == ch \in WordChars

----------------------------------------------------------------------------
(* The re module, as far as fix_spelling uses it *)

\* The characters re.escape puts a backslash before.
EscapedChars == {"(", ")", "[", "]", "{", "}", "?", "*", "+", "-", "|", "^",
                 "$", "\\", ".", "&", "~", "#", " ", "\t", "\n", "\r"}

RECURSIVE re_escape(_)
re_escape(s) ==
  IF s = "" THEN ""
  ELSE (IF Head(s) \in EscapedChars THEN "\\" \o Head(s) ELSE Head(s))
       \o re_escape(Tail(s))

\* The pattern of fix_spelling, parsed: a sequence of items, each a word
\* boundary, a literal character, or any character but a newline.  Every
\* pattern fix_spelling builds is \b, an escaped literal, \b, so the parser
\* needs no more than this.
RECURSIVE re_compile(_)
re_compile(p) ==
  IF p = "" THEN <<>>
  ELSE IF Head(p) = "\\" /\ Len(p) >= 2
       THEN (IF CharAt(p, 2) = "b"
             THEN <<[kind |-> "boundary", ch |-> ""]>>
             ELSE <<[kind |-> "literal", ch |-> CharAt(p, 2)]>>)
            \o re_compile(SubSeq(p, 3, Len(p)))
       ELSE (IF Head(p) = "."
             THEN <<[kind |-> "any", ch |-> ""]>>
             ELSE <<[kind |-> "literal", ch |-> Head(p)]>>)
            \o re_compile(Tail(p))

\* \b at offset pos of s (0 .. Len(s)): exactly one of the characters on its
\* two sides is a word character.
AtBoundary(s, pos) ==
  LET left  == pos > 0 /\ IsWordChar(CharAt(s, pos))
      right == pos < Len(s) /\ IsWordChar(CharAt(s, pos + 1))
  IN  left # right

ToLower ==
  [A |-> "a", B |-> "b", C |-> "c", D |-> "d", E |-> "e", F |-> "f", G |-> "g",
   H |-> "h", I |-> "i", J |-> "j", K |-> "k", L |-> "l", M |-> "m", N |-> "n",
   O |-> "o", P |-> "p", Q |-> "q", R |-> "r", S |-> "s", T |-> "t", U |-> "u",
   V |-> "v", W |-> "w", X |-> "x", Y |-> "y", Z |-> "z"]

RECURSIVE Lower(_)
Lower(s) ==
  IF s = "" THEN ""
  ELSE (IF Head(s) \in DOMAIN ToLower THEN ToLower[Head(s)] ELSE Head(s))
       \o Lower(Tail(s))

\* re_match as it would be under re.IGNORECASE.
RECURSIVE re_match_ignorecase(_, _, _, _)
re_match_ignorecase(items, k, s, pos) ==
  IF k > Len(items) THEN pos
  ELSE IF items[k].kind = "boundary"
       THEN IF AtBoundary(s, pos) THEN re_match_ignorecase(items, k + 1, s, pos) ELSE -1
  ELSE IF pos >= Len(s) THEN -1
  ELSE IF items[k].kind = "any"
       THEN IF CharAt(s, pos + 1) # "\n"
            THEN re_match_ignorecase(items, k + 1, s, pos + 1) ELSE -1
  ELSE IF Lower(CharAt(s, pos + 1)) = Lower(items[k].ch)
       THEN re_match_ignorecase(items, k + 1, s, pos + 1) ELSE -1

\* Match items k.. of the pattern at offset pos of s: the offset where the
\* match ends, or -1.
RECURSIVE re_match(_, _, _, _)
re_match(items, k, s, pos) ==
  IF k > Len(items) THEN pos
  ELSE IF items[k].kind = "boundary"
       THEN IF AtBoundary(s, pos) THEN re_match(items, k + 1, s, pos) ELSE -1
  ELSE IF pos >= Len(s) THEN -1
  ELSE IF items[k].kind = "any"
       THEN IF CharAt(s, pos + 1) # "\n"
            THEN re_match(items, k + 1, s, pos + 1) ELSE -1
  ELSE IF CharAt(s, pos + 1) = items[k].ch
       THEN re_match(items, k + 1, s, pos + 1) ELSE -1

\* The replacement template: a backslash escape is processed, an unknown
\* escape of a letter or a digit and a trailing backslash are an error.
TemplateEscapes == [n |-> "\n", t |-> "\t", r |-> "\r"]

RECURSIVE template_ok(_)
template_ok(repl) ==
  IF repl = "" THEN TRUE
  ELSE IF Head(repl) # "\\" THEN template_ok(Tail(repl))
  ELSE IF Len(repl) = 1 THEN FALSE
  ELSE IF CharAt(repl, 2) \in DOMAIN TemplateEscapes \cup {"\\"}
       THEN template_ok(SubSeq(repl, 3, Len(repl)))
  ELSE IF CharAt(repl, 2) \in UpperLetters \cup LowerLetters \cup Digits
       THEN FALSE
  ELSE template_ok(SubSeq(repl, 3, Len(repl)))

RECURSIVE expand_template(_)
expand_template(repl) ==
  IF repl = "" THEN ""
  ELSE IF Head(repl) # "\\" THEN Head(repl) \o expand_template(Tail(repl))
  ELSE IF CharAt(repl, 2) = "\\"
       THEN "\\" \o expand_template(SubSeq(repl, 3, Len(repl)))
  ELSE IF CharAt(repl, 2) \in DOMAIN TemplateEscapes
       THEN TemplateEscapes[CharAt(repl, 2)]
            \o expand_template(SubSeq(repl, 3, Len(repl)))
  ELSE SubSeq(repl, 1, 2) \o expand_template(SubSeq(repl, 3, Len(repl)))

\* sub_from as it would be with count=1: the text after the first match is
\* copied as it is.
RECURSIVE sub_from_once(_, _, _, _)
sub_from_once(items, repl, s, pos) ==
  IF pos > Len(s) THEN ""
  ELSE LET end  == re_match(items, 1, s, pos)
       IN  IF end = -1
           THEN IF pos < Len(s)
                THEN CharAt(s, pos + 1) \o sub_from_once(items, repl, s, pos + 1)
                ELSE ""
           ELSE repl \o SubSeq(s, end + 1, Len(s))

\* The scan of re.sub from offset pos: leftmost matches, not overlapping; an
\* empty match is replaced and the scan moves one character on.
RECURSIVE sub_from(_, _, _, _)
sub_from(items, repl, s, pos) ==
  IF pos > Len(s) THEN ""
  ELSE LET end  == re_match(items, 1, s, pos)
           copy == IF pos < Len(s)
                   THEN CharAt(s, pos + 1) \o sub_from(items, repl, s, pos + 1)
                   ELSE ""
       IN  IF end = -1 THEN copy
           ELSE IF end > pos THEN repl \o sub_from(items, repl, s, end)
           ELSE repl \o copy

\* re.sub(pattern, repl, string): [exc, val]
re_sub(pattern, repl, string) ==
  IF ~ template_ok(repl)
  THEN [exc |-> "re.error", val |-> ""]
  ELSE [exc |-> "", val |-> sub_from(re_compile(pattern), expand_template(repl), string, 0)]

----------------------------------------------------------------------------
(* PhytonInterpreter *)

\* The dict literal of __init__, in source order.
InitialMappings ==
  << <<"def",     <<"def", "deff", "define", "defin">> >>,
     <<"if",      <<"if", "iff", "iif">> >>,
     <<"elif",    <<"elif", "elsif", "elseif", "else_if">> >>,
     <<"else",    <<"else", "els", "elze">> >>,
     <<"for",     <<"for", "fore", "four", "fr">> >>,
     <<"while",   <<"while", "wile", "whyle", "whil">> >>,
     <<"in",      <<"in", "inn", "iin">> >>,
     <<"return",  <<"return", "retrun", "retrn", "ret">> >>,
     <<"import",  <<"import", "imprt", "imort", "importt">> >>,
     <<"from",    <<"from", "frm", "fom">> >>,
     <<"as",      <<"as", "az", "ass">> >>,
     <<"class",   <<"class", "clas", "clss", "klass">> >>,
     <<"try",     <<"try", "tri", "tyr">> >>,
     <<"except",  <<"except", "exept", "excpt", "catch">> >>,
     <<"finally", <<"finally", "finaly", "finale">> >>,
     <<"with",    <<"with", "wth", "wit">> >>,
     <<"and",     <<"and", "andd", "adn">> >>,
     <<"or",      <<"or", "orr">> >>,
     <<"not",     <<"not", "nott", "no">> >>,
     <<"is",      <<"is", "iz", "iss">> >>,
     <<"True",    <<"True", "true", "TRUE", "tru">> >>,
     <<"False",   <<"False", "false", "FALSE", "fals">> >>,
     <<"None",    <<"None", "none", "NONE", "null", "nil">> >>,
     <<"print",   <<"print", "prin", "prnt", "pritn">> >> >>

\* The dict as a value: its items in order, each list reference resolved.
Items(km, h) == [i \in 1..Len(km) |-> <<km[i][1], h[km[i][2]]>>]

\* fix_entry with break in the place of continue.
RECURSIVE fix_entry_break(_, _, _, _)
fix_entry_break(fixed_code, correct_keyword, misspellings, j) ==
  IF j > Len(misspellings) THEN [exc |-> "", val |-> fixed_code]
  ELSE IF misspellings[j] = correct_keyword
       THEN [exc |-> "", val |-> fixed_code]
  ELSE LET pattern == "\\b" \o re_escape(misspellings[j]) \o "\\b"
           r == re_sub(pattern, correct_keyword, fixed_code)
       IN  IF r.exc # "" THEN r
           ELSE fix_entry_break(r.val, correct_keyword, misspellings, j + 1)

\* fix_entry with no \b at the end of the pattern.
RECURSIVE fix_entry_open_end(_, _, _, _)
fix_entry_open_end(fixed_code, correct_keyword, misspellings, j) ==
  IF j > Len(misspellings) THEN [exc |-> "", val |-> fixed_code]
  ELSE IF misspellings[j] = correct_keyword
       THEN fix_entry_open_end(fixed_code, correct_keyword, misspellings, j + 1)
  ELSE LET pattern == "\\b" \o re_escape(misspellings[j])
           r == re_sub(pattern, correct_keyword, fixed_code)
       IN  IF r.exc # "" THEN r
           ELSE fix_entry_open_end(r.val, correct_keyword, misspellings, j + 1)

\* fix_entry with a space after the keyword it puts in.
RECURSIVE fix_entry_padded(_, _, _, _)
fix_entry_padded(fixed_code, correct_keyword, misspellings, j) ==
  IF j > Len(misspellings) THEN [exc |-> "", val |-> fixed_code]
  ELSE IF misspellings[j] = correct_keyword
       THEN fix_entry_padded(fixed_code, correct_keyword, misspellings, j + 1)
  ELSE LET pattern == "\\b" \o re_escape(misspellings[j]) \o "\\b"
           r == re_sub(pattern, correct_keyword \o " ", fixed_code)
       IN  IF r.exc # "" THEN r
           ELSE fix_entry_padded(r.val, correct_keyword, misspellings, j + 1)

\* The inner loop of fix_spelling from alternate j of one entry on.
RECURSIVE fix_entry(_, _, _, _)
fix_entry(fixed_code, correct_keyword, misspellings, j) ==
  IF j > Len(misspellings) THEN [exc |-> "", val |-> fixed_code]
  ELSE IF misspellings[j] = correct_keyword
       THEN fix_entry(fixed_code, correct_keyword, misspellings, j + 1)
  ELSE LET pattern == "\\b" \o re_escape(misspellings[j]) \o "\\b"
           r == re_sub(pattern, correct_keyword, fixed_code)
       IN  IF r.exc # "" THEN r
           ELSE fix_entry(r.val, correct_keyword, misspellings, j + 1)

\* fix_items going through the table from its last item to its first.
RECURSIVE fix_items_backwards(_, _, _)
fix_items_backwards(fixed_code, items, i) ==
  LET at == Len(items) + 1 - i IN
  IF i > Len(items) THEN [exc |-> "", val |-> fixed_code]
  ELSE LET r == fix_entry(fixed_code, items[at][1], items[at][2], 1)
       IN  IF r.exc # "" THEN r ELSE fix_items_backwards(r.val, items, i + 1)

\* The outer loop of fix_spelling from item i of the table on.
RECURSIVE fix_items(_, _, _)
fix_items(fixed_code, items, i) ==
  IF i > Len(items) THEN [exc |-> "", val |-> fixed_code]
  ELSE LET r == fix_entry(fixed_code, items[i][1], items[i][2], 1)
       IN  IF r.exc # "" THEN r ELSE fix_items(r.val, items, i + 1)

\* fix_spelling returning fixed_code.rstrip('\n').
RECURSIVE rstrip_newlines(_)
rstrip_newlines(s) ==
  IF s # "" /\ CharAt(s, Len(s)) = "\n"
  THEN rstrip_newlines(SubSeq(s, 1, Len(s) - 1)) ELSE s

fix_spelling_rstrip(items, code) ==
  LET r == fix_items(code, items, 1) IN [r EXCEPT !.val = rstrip_newlines(r.val)]

\* fix_spelling(code) on a table: [exc, val].
fix_spelling(items, code) == fix_items(code, items, 1)

----------------------------------------------------------------------------
(* The calls *)

NoList == [kind |-> "None", ref |-> 0, val |-> <<>>]

NoCall == [op |-> "init", correct_keyword |-> "", misspelling |-> "",
           misspellings |-> NoList, code |-> "", ret |-> "", exc |-> "",
           raised |-> [type |-> "", msg |-> ""], out |-> <<>>,
           word |-> "", args |-> <<>>]

\* Position of a key among the items of the dict, 0 when it is not a key.
KeyIndex(km, k) ==
  IF \E i \in 1..Len(km) : km[i][1] = k
  THEN CHOOSE i \in 1..Len(km) : km[i][1] = k
  ELSE 0

InList(x, l) == \E i \in 1..Len(l) : l[i] = x

\* d[k] = v on the dict: a key it has keeps its place, a new key goes last.
SetItem(km, k, ref) ==
  IF KeyIndex(km, k) # 0
  THEN [km EXCEPT ![KeyIndex(km, k)] = <<k, ref>>]
  ELSE Append(km, <<k, ref>>)

\* The module is imported and its main has not been called: there is no
\* command line, nothing is read or printed, and no code has run.
Imported ==
  /\ argv = <<>>
  /\ pc = "imported"
  /\ multi_line_buffer = <<>>
  /\ typed = <<>>
  /\ io = <<>>
  /\ executed = <<>>
  /\ globals = {}

\* Bounds of the exploration.
MaxChanges == 1    \* calls that change the dict or a list object
MaxNewLists == 1   \* list objects made after construction

Init ==
  /\ keyword_mappings = [i \in 1..Len(InitialMappings) |-> <<InitialMappings[i][1], i>>]
  /\ heap = [i \in 1..Len(InitialMappings) |-> InitialMappings[i][2]]
  /\ held = {}
  /\ call = NoCall
  /\ before = InitialMappings
  /\ changes = 0
  /\ fuzzy_matching = FALSE
  /\ Imported

\* add_misspelling without the test that the misspelling is new.
add_misspelling_unchecked(correct_keyword, misspelling) ==
  LET i == KeyIndex(keyword_mappings, correct_keyword) IN
  /\ before' = Items(keyword_mappings, heap)
  /\ IF i # 0
     THEN LET ref == keyword_mappings[i][2] IN
          /\ changes < MaxChanges
          /\ heap' = [heap EXCEPT ![ref] = Append(@, misspelling)]
          /\ changes' = changes + 1
          /\ call' = [NoCall EXCEPT !.op = "add_misspelling",
                                    !.correct_keyword = correct_keyword,
                                    !.misspelling = misspelling,
                                    !.ret = TRUE]
          /\ UNCHANGED keyword_mappings
     ELSE /\ call' = [NoCall EXCEPT !.op = "add_misspelling",
                                    !.correct_keyword = correct_keyword,
                                    !.misspelling = misspelling,
                                    !.ret = FALSE]
          /\ UNCHANGED <<keyword_mappings, heap, changes>>
  /\ UNCHANGED <<held, fuzzy_matching, shell>>

\* add_misspelling making an entry for a keyword that has none
\* (setdefault in the place of the membership test).
add_misspelling_setdefault(correct_keyword, misspelling) ==
  LET i == KeyIndex(keyword_mappings, correct_keyword) IN
  /\ before' = Items(keyword_mappings, heap)
  /\ IF i # 0
     THEN LET ref == keyword_mappings[i][2] IN
          /\ IF ~ InList(misspelling, heap[ref])
             THEN /\ changes < MaxChanges
                  /\ heap' = [heap EXCEPT ![ref] = Append(@, misspelling)]
                  /\ changes' = changes + 1
             ELSE UNCHANGED <<heap, changes>>
          /\ call' = [NoCall EXCEPT !.op = "add_misspelling",
                                    !.correct_keyword = correct_keyword,
                                    !.misspelling = misspelling,
                                    !.ret = TRUE]
          /\ UNCHANGED keyword_mappings
     ELSE /\ changes < MaxChanges
          /\ Len(heap) < Len(InitialMappings) + MaxNewLists
          /\ heap' = Append(heap, <<misspelling>>)
          /\ keyword_mappings' = Append(keyword_mappings, <<correct_keyword, Len(heap) + 1>>)
          /\ changes' = changes + 1
          /\ call' = [NoCall EXCEPT !.op = "add_misspelling",
                                    !.correct_keyword = correct_keyword,
                                    !.misspelling = misspelling,
                                    !.ret = FALSE]
  /\ UNCHANGED <<held, fuzzy_matching, shell>>

\* add_misspelling(correct_keyword, misspelling)
add_misspelling(correct_keyword, misspelling) ==
  LET i == KeyIndex(keyword_mappings, correct_keyword) IN
  /\ before' = Items(keyword_mappings, heap)
  /\ IF i # 0
     THEN LET ref == keyword_mappings[i][2] IN
          /\ IF ~ InList(misspelling, heap[ref])
             THEN /\ changes < MaxChanges
                  /\ heap' = [heap EXCEPT ![ref] = Append(@, misspelling)]
                  /\ changes' = changes + 1
             ELSE UNCHANGED <<heap, changes>>
          /\ call' = [NoCall EXCEPT !.op = "add_misspelling",
                                    !.correct_keyword = correct_keyword,
                                    !.misspelling = misspelling,
                                    !.ret = TRUE]
     ELSE /\ call' = [NoCall EXCEPT !.op = "add_misspelling",
                                    !.correct_keyword = correct_keyword,
                                    !.misspelling = misspelling,
                                    !.ret = FALSE]
          /\ UNCHANGED <<heap, changes>>
  /\ UNCHANGED <<keyword_mappings, held, fuzzy_matching, shell>>

\* add_keyword(correct_keyword, misspellings): misspellings is None, a list
\* the caller makes for the call, or a list object the caller holds.  The
\* list is changed in place and the dict keeps the object itself.
add_keyword(correct_keyword, arg) ==
  LET ref == IF arg.kind = "held" THEN arg.ref ELSE Len(heap) + 1
      given == IF arg.kind = "held" THEN heap[arg.ref] ELSE arg.val
      misspellings == IF arg.kind = "None" THEN <<correct_keyword>>
                      ELSE IF ~ InList(correct_keyword, given)
                           THEN <<correct_keyword>> \o given
                           ELSE given
  IN
  /\ before' = Items(keyword_mappings, heap)
  /\ changes < MaxChanges
  /\ arg.kind = "held" => arg.ref \in held
  /\ arg.kind # "held" => Len(heap) < Len(InitialMappings) + MaxNewLists
  /\ heap' = IF arg.kind = "held" THEN [heap EXCEPT ![ref] = misspellings]
             ELSE Append(heap, misspellings)
  /\ changes' = changes + 1
  /\ keyword_mappings' = SetItem(keyword_mappings, correct_keyword, ref)
  /\ call' = [NoCall EXCEPT !.op = "add_keyword",
                            !.correct_keyword = correct_keyword,
                            !.misspellings = [kind |-> arg.kind, ref |-> ref, val |-> given]]
  /\ UNCHANGED <<held, fuzzy_matching, shell>>

\* get_misspellings that makes an entry for a keyword that has none
\* (setdefault in the place of get).
get_misspellings_setdefault(correct_keyword) ==
  LET i == KeyIndex(keyword_mappings, correct_keyword)
      ref == IF i # 0 THEN keyword_mappings[i][2] ELSE Len(heap) + 1
  IN
  /\ before' = Items(keyword_mappings, heap)
  /\ i = 0 => Len(heap) < Len(InitialMappings) + MaxNewLists
  /\ heap' = IF i # 0 THEN heap ELSE Append(heap, <<>>)
  /\ held' = held \cup {ref}
  /\ call' = [NoCall EXCEPT !.op = "get_misspellings",
                            !.correct_keyword = correct_keyword,
                            !.misspellings = [kind |-> "held", ref |-> ref, val |-> heap'[ref]],
                            !.ret = heap'[ref]]
  /\ keyword_mappings' = IF i # 0 THEN keyword_mappings
                         ELSE Append(keyword_mappings, <<correct_keyword, ref>>)
  /\ UNCHANGED <<changes, fuzzy_matching, shell>>

\* get_misspellings(correct_keyword): the list object of the entry itself, or
\* a new empty list; the caller holds what it is given.
get_misspellings(correct_keyword) ==
  LET i == KeyIndex(keyword_mappings, correct_keyword)
      ref == IF i # 0 THEN keyword_mappings[i][2] ELSE Len(heap) + 1
  IN
  /\ before' = Items(keyword_mappings, heap)
  /\ i = 0 => Len(heap) < Len(InitialMappings) + MaxNewLists
  /\ heap' = IF i # 0 THEN heap ELSE Append(heap, <<>>)
  /\ held' = held \cup {ref}
  /\ call' = [NoCall EXCEPT !.op = "get_misspellings",
                            !.correct_keyword = correct_keyword,
                            !.misspellings = [kind |-> "held", ref |-> ref, val |-> heap'[ref]],
                            !.ret = heap'[ref]]
  /\ UNCHANGED <<keyword_mappings, changes, fuzzy_matching, shell>>

\* fix_spelling(code)
FixSpelling(code) ==
  \E r \in {fix_spelling(Items(keyword_mappings, heap), code)} :
  /\ before' = Items(keyword_mappings, heap)
  /\ call' = [NoCall EXCEPT !.op = "fix_spelling", !.code = code,
                            !.ret = r.val, !.exc = r.exc]
  /\ UNCHANGED <<keyword_mappings, heap, held, changes, fuzzy_matching, shell>>

----------------------------------------------------------------------------
(* execute *)

\* The class an exception class derives from; "" above BaseException.
Base(cls) ==
  CASE cls = "BaseException" -> ""
    [] cls \in {"Exception", "SystemExit", "KeyboardInterrupt", "GeneratorExit"}
         -> "BaseException"
    [] cls = "IndentationError" -> "SyntaxError"
    [] cls = "UnboundLocalError" -> "NameError"
    [] cls = "UnicodeDecodeError" -> "ValueError"
    [] cls = "ModuleNotFoundError" -> "ImportError"
    [] cls \in {"FileNotFoundError", "PermissionError", "IsADirectoryError"}
         -> "OSError"
    [] OTHER -> "Exception"

RECURSIVE issubclass(_, _)
issubclass(cls, target) ==
  cls # "" /\ (cls = target \/ issubclass(Base(cls), target))

\* type(e).__name__
TypeName(cls) == IF cls = "re.error" THEN "error" ELSE cls

\* The except clauses with the clause for Exception first.
Handlers_exception_first ==
  <<"Exception", "SyntaxError", "NameError", "TypeError", "ValueError",
    "ImportError", "KeyboardInterrupt">>

\* The except clauses of execute, in their order.
Handlers == <<"SyntaxError", "NameError", "TypeError", "ValueError",
              "ImportError", "KeyboardInterrupt", "Exception">>

\* The except clauses without the last, the one for Exception.
handler_named(cls) ==
  IF \E i \in 1..(Len(Handlers) - 1) : issubclass(cls, Handlers[i])
  THEN CHOOSE i \in 1..(Len(Handlers) - 1) :
         /\ issubclass(cls, Handlers[i])
         /\ \A j \in 1..(i - 1) : ~ issubclass(cls, Handlers[j])
  ELSE 0

\* The first except clause that takes an exception of class cls, 0 when
\* none does.
handler(cls) ==
  IF \E i \in 1..Len(Handlers) : issubclass(cls, Handlers[i])
  THEN CHOOSE i \in 1..Len(Handlers) :
         /\ issubclass(cls, Handlers[i])
         /\ \A j \in 1..(i - 1) : ~ issubclass(cls, Handlers[j])
  ELSE 0

\* What the except clause i prints for exception e.
report(i, e) ==
  CASE Handlers[i] = "KeyboardInterrupt" ->
         << <<"print", "PhytonKeyboardInterrupt: Execution interrupted">> >>
    [] Handlers[i] = "Exception" ->
         << <<"print", "PhytonUnexpectedError: " \o TypeName(e.type) \o ": " \o e.msg>>,
            <<"print", "This might be a bug in Phyton or an unusual error condition.">> >>
    [] OTHER ->
         << <<"print", "Phyton" \o Handlers[i] \o ": " \o e.msg>> >>

Returned == [type |-> "", msg |-> ""]

FixedNotice == "# Phyton: Fixed spelling -> "

\* self.fix_spelling(code) as a call of execute finds it: fix_spelling reads
\* the name re in the namespace of the module, where the executed texts run
\* too, and when a text has bound that name to a number re.escape raises an
\* AttributeError.
RebindsRe(g) == "re" \in g

fix_spelling_in(g, items, code) ==
  IF RebindsRe(g) /\ \E i \in 1..Len(items) : \E k \in 1..Len(items[i][2]) :
                       items[i][2][k] # items[i][1]
  THEN [val |-> code, exc |-> "AttributeError"]
  ELSE fix_spelling(items, code)

\* The message of an exception of fix_spelling.
fix_message(exc) ==
  IF exc = "AttributeError" THEN "'int' object has no attribute 'escape'"
  ELSE "bad escape"

\* execute with the notice printed after the code has run.
execute_notice_late(code, outcome) ==
  \E r \in {fix_spelling_in(globals, Items(keyword_mappings, heap), code)} :
  LET e == IF r.exc # "" THEN [type |-> r.exc, msg |-> fix_message(r.exc)] ELSE outcome
      notice == IF r.exc = "" /\ r.val # code /\ e.type = ""
                THEN << <<"print", FixedNotice \o r.val>> >> ELSE <<>>
      ran == IF r.exc = "" THEN << <<"exec", r.val>> >> ELSE <<>>
      i == handler(e.type)
  IN
  /\ before' = Items(keyword_mappings, heap)
  /\ call' = [NoCall EXCEPT !.op = "execute", !.code = code, !.raised = e,
                            !.out = ran \o notice
                                    \o (IF i # 0 THEN report(i, e) ELSE <<>>),
                            !.exc = IF e.type # "" /\ i = 0 THEN e.type ELSE ""]
  /\ UNCHANGED <<keyword_mappings, heap, held, changes, fuzzy_matching>>

\* execute that registers the text it ran as a keyword of its own.
execute_learning(code, outcome) ==
  \E r \in {fix_spelling_in(globals, Items(keyword_mappings, heap), code)} :
  LET e == IF r.exc # "" THEN [type |-> r.exc, msg |-> fix_message(r.exc)] ELSE outcome
      notice == IF r.exc = "" /\ r.val # code
                THEN << <<"print", FixedNotice \o r.val>> >> ELSE <<>>
      ran == IF r.exc = "" THEN << <<"exec", r.val>> >> ELSE <<>>
      i == handler(e.type)
  IN
  /\ before' = Items(keyword_mappings, heap)
  /\ call' = [NoCall EXCEPT !.op = "execute", !.code = code, !.raised = e,
                            !.out = notice \o ran
                                    \o (IF i # 0 THEN report(i, e) ELSE <<>>),
                            !.exc = IF e.type # "" /\ i = 0 THEN e.type ELSE ""]
  /\ heap' = [heap EXCEPT ![1] = Append(@, code)]
  /\ UNCHANGED <<keyword_mappings, held, changes, fuzzy_matching>>

\* execute(code): the text is corrected, the notice is printed when the
\* correction changed it, and the corrected text is run; outcome is what
\* running it does -- it returns, or it raises an exception of a class with
\* a message.  An exception of the try block, from fix_spelling or from the
\* run, goes to the first except clause that takes it and is printed under
\* that clause's label; one that no clause takes leaves execute.  The run
\* is taken to leave the interpreter object alone.  What the call does to
\* the process around it (io, globals) is stated where execute is called.
execute(code, outcome) ==
  \E r \in {fix_spelling_in(globals, Items(keyword_mappings, heap), code)} :
  LET e == IF r.exc # "" THEN [type |-> r.exc, msg |-> fix_message(r.exc)] ELSE outcome
      notice == IF r.exc = "" /\ r.val # code
                THEN << <<"print", FixedNotice \o r.val>> >> ELSE <<>>
      ran == IF r.exc = "" THEN << <<"exec", r.val>> >> ELSE <<>>
      i == handler(e.type)
  IN
  /\ before' = Items(keyword_mappings, heap)
  /\ call' = [NoCall EXCEPT !.op = "execute", !.code = code, !.raised = e,
                            !.out = notice \o ran
                                    \o (IF i # 0 THEN report(i, e) ELSE <<>>),
                            !.exc = IF e.type # "" /\ i = 0 THEN e.type ELSE ""]
  /\ UNCHANGED <<keyword_mappings, heap, held, changes, fuzzy_matching>>

----------------------------------------------------------------------------
(* Specifications *)

Range(f) == {f[i] : i \in DOMAIN f}

\* Every spelling the constructor registers.
Spellings == UNION {Range(InitialMappings[i][2]) : i \in 1..Len(InitialMappings)}

\* The texts fix_spelling is applied to on the constructor's table: every
\* word of TestWords between a left and a right context, and every
\* concatenation of at most MaxPieces pieces.
MaxPieces == 3

Before == {"", "# ", "\"", "_"}
After == {"", "(", "\n", "x"}
TestWords == Spellings \cup {"hello", "DEFF", "PRIN", "Iff"}
Embedded == {b \o w \o a : b \in Before, w \in TestWords, a \in After}

Pieces == {"deff", "print", "PRIN", "no", " ", "\n\t", "_"}

RECURSIVE Composed(_)
Composed(n) ==
  IF n = 0 THEN {""}
  ELSE Composed(n - 1) \cup {t \o p : t \in Composed(n - 1), p \in Pieces}

FixTexts == Embedded \cup Composed(MaxPieces)

\* The constructor's table, and one call of fix_spelling on a text.
InitFix ==
  /\ keyword_mappings = [i \in 1..Len(InitialMappings) |-> <<InitialMappings[i][1], i>>]
  /\ heap = [i \in 1..Len(InitialMappings) |-> InitialMappings[i][2]]
  /\ held = {}
  /\ call \in {[NoCall EXCEPT !.op = "pending", !.code = t] : t \in FixTexts}
  /\ before = InitialMappings
  /\ changes = 0
  /\ fuzzy_matching = FALSE
  /\ Imported

NextFix == call.op = "pending" /\ FixSpelling(call.code)

SpecFix == InitFix /\ [][NextFix]_vars

\* The arguments of the calls on a table that changes.
KeywordArgs == {"def", "fn"}
MisspellingArgs == {"deff", "dfn"}
ListArgs == {<<"deff", "deff">>, <<"fn", "def">>}
CodeArgs == {"deff", "fn(dfn)"}
ExecArgs == {"fn(dfn)"}

Next ==
  \/ \E c \in KeywordArgs, m \in MisspellingArgs : add_misspelling(c, m)
  \/ \E c \in KeywordArgs : add_keyword(c, NoList)
  \/ \E c \in KeywordArgs, l \in ListArgs :
       add_keyword(c, [kind |-> "new", ref |-> 0, val |-> l])
  \/ \E c \in KeywordArgs, r \in held :
       add_keyword(c, [kind |-> "held", ref |-> r, val |-> <<>>])
  \/ \E c \in KeywordArgs : get_misspellings(c)
  \/ \E code \in CodeArgs : FixSpelling(code)
  \/ \E code \in ExecArgs : execute(code, Returned) /\ UNCHANGED shell

Spec == Init /\ [][Next]_vars

\* What running a text does: it returns, or it raises an exception of one
\* of these classes with one of these messages.
ExecClasses == {"SyntaxError", "IndentationError", "NameError", "UnboundLocalError",
                "TypeError", "ValueError", "UnicodeDecodeError", "ImportError",
                "ModuleNotFoundError", "KeyboardInterrupt", "RuntimeError",
                "ZeroDivisionError", "SystemExit", "GeneratorExit", "BaseException"}
ExecMessages == {"", "oops"}
ExecOutcomes == {Returned} \cup [type : ExecClasses, msg : ExecMessages]

ExecTexts == {"", "x = 1 + 1", "print('x')", "prin('x')", "undefined_variable",
              "deff f():\n\tretrun 1", "iff True: pass", "raise KeyboardInterrupt()"}

\* The constructor's table, and one call of execute on a text.
InitExec ==
  /\ keyword_mappings = [i \in 1..Len(InitialMappings) |-> <<InitialMappings[i][1], i>>]
  /\ heap = [i \in 1..Len(InitialMappings) |-> InitialMappings[i][2]]
  /\ held = {}
  /\ call \in {[NoCall EXCEPT !.op = "pending", !.code = t] : t \in ExecTexts}
  /\ before = InitialMappings
  /\ changes = 0
  /\ fuzzy_matching = FALSE
  /\ Imported

NextExec ==
  call.op = "pending" /\ \E o \in ExecOutcomes : execute(call.code, o) /\ UNCHANGED shell

SpecExec == InitExec /\ [][NextExec]_vars

----------------------------------------------------------------------------
(* Words and the text between them, for the properties of fix_spelling *)

\* The maximal runs of word characters and of other characters of a text,
\* in order.
RECURSIVE Runs(_)
Runs(s) ==
  IF s = "" THEN <<>>
  ELSE LET rest == Runs(Tail(s)) IN
       IF rest # <<>> /\ IsWordChar(Head(rest[1])) = IsWordChar(Head(s))
       THEN <<Head(s) \o rest[1]>> \o Tail(rest)
       ELSE <<Head(s)>> \o rest

IsWord(run) == IsWordChar(Head(run))

\* The pairs <<spelling, keyword>> of the constructor's table, and those
\* whose spelling is not the keyword itself.
Registered ==
  UNION {{<<InitialMappings[i][2][j], InitialMappings[i][1]>> :
            j \in 1..Len(InitialMappings[i][2])} : i \in 1..Len(InitialMappings)}
Alternates == {p \in Registered : p[1] # p[2]}
AlternateWords == {p[1] : p \in Alternates}

Contains(w, a) ==
  \E i \in 1..(Len(w) - Len(a) + 1) : SubSeq(w, i, i + Len(a) - 1) = a

Fixed == call.op = "fix_spelling" /\ call.exc = ""
In == Runs(call.code)
Out == Runs(call.ret)

----------------------------------------------------------------------------
(* Properties of fix_spelling on the constructor's table *)

\* C1: every word of the text that is a spelling registered for a keyword
\* stands as that keyword, at the same place among the runs, in the result.
C1_ExactTableCoverage ==
  call.op = "fix_spelling" =>
    /\ call.exc = ""
    /\ \A k \in 1..Len(In) : \A p \in Registered :
         In[k] = p[1] => k <= Len(Out) /\ Out[k] = p[2]

C1_Witness ==
  /\ Fixed
  /\ \E k \in 1..Len(In) : \E p \in Alternates :
       In[k] = p[1] /\ Len(Out) = Len(In) /\ Out[k] = p[2] /\ call.ret # call.code

\* C2: a word that is no registered spelling but contains a registered
\* alternate next to a word character is the same word in the result.
C2_WordBoundarySafety ==
  Fixed =>
    \A k \in 1..Len(In) :
      (/\ In[k] \notin {p[1] : p \in Registered}
       /\ \E a \in AlternateWords : Contains(In[k], a))
      => k <= Len(Out) /\ Out[k] = In[k]

C2_Witness ==
  /\ Fixed
  /\ \E k \in 1..Len(In) :
       /\ In[k] \notin {p[1] : p \in Registered}
       /\ Contains(In[k], "define")
       /\ Len(Out) = Len(In) /\ Out[k] = In[k]

\* C3: a word that is no registered spelling but is one after case folding
\* is the same word in the result.
C3_CaseSensitive ==
  Fixed =>
    \A k \in 1..Len(In) :
      (/\ In[k] \notin {p[1] : p \in Registered}
       /\ \E a \in AlternateWords : Lower(In[k]) = Lower(a))
      => k <= Len(Out) /\ Out[k] = In[k]

C3_Witness ==
  /\ Fixed
  /\ \E k \in 1..Len(In) :
       /\ In[k] \in {"DEFF", "PRIN"}
       /\ Len(Out) = Len(In) /\ Out[k] = In[k]

\* C4: no word of the result is a registered alternate, wherever it stood in
\* the text.
C4_NoAlternateLeft ==
  Fixed => \A k \in 1..Len(Out) : Out[k] \notin AlternateWords

C4_Witness ==
  /\ Fixed
  /\ \E k \in 2..Len(In) :
       /\ In[k] \in AlternateWords
       /\ In[k - 1] \in {"# ", "\""}
       /\ \A j \in 1..Len(Out) : Out[j] \notin AlternateWords

\* C5: fix_spelling raises nothing, and a text none of whose words is a
\* registered alternate is returned as it is.
C5_TotalAndIdentity ==
  call.op = "fix_spelling" =>
    /\ call.exc = ""
    /\ (\A k \in 1..Len(In) : In[k] \notin AlternateWords) => call.ret = call.code

C5_Witness ==
  /\ Fixed
  /\ \A k \in 1..Len(In) : In[k] \notin AlternateWords
  /\ \E k \in 1..Len(In) : In[k] = "print"
  /\ \E k \in 1..Len(In) : ~ IsWord(In[k])
  /\ call.ret = call.code

\* C6: the result has the runs of the text in the same order: every run of
\* other characters as it was, a word where a word was, and every word that
\* is no registered spelling as it was.
C6_PreservesNonTokenText ==
  Fixed =>
    /\ Len(Out) = Len(In)
    /\ \A k \in 1..Len(In) :
         /\ k <= Len(Out)
         /\ IsWord(Out[k]) = IsWord(In[k])
         /\ ~ IsWord(In[k]) => Out[k] = In[k]
         /\ In[k] \notin {p[1] : p \in Registered} => Out[k] = In[k]

C6_Witness ==
  /\ Fixed
  /\ Len(In) >= 3
  /\ Len(Out) = Len(In)
  /\ call.ret # call.code
  /\ \E k \in 1..Len(In) : In[k] = "\n\t" /\ Out[k] = In[k]

----------------------------------------------------------------------------
(* Properties of the table operations and of fix_spelling on a changed table *)

Now == Items(keyword_mappings, heap)

IsKey(items, k) == \E i \in 1..Len(items) : items[i][1] = k
Entry(items, k) == items[KeyIndex([i \in 1..Len(items) |-> <<items[i][1], 0>>], k)][2]
Keys(items) == [i \in 1..Len(items) |-> items[i][1]]

\* What sequential, cumulative substitution makes of one word: entry after
\* entry in table order, a word that is an alternate of the entry becomes
\* its keyword, and the later entries see the keyword.
RECURSIVE Chain(_, _, _)
Chain(items, w, i) ==
  IF i > Len(items) THEN w
  ELSE IF InList(w, items[i][2]) /\ w # items[i][1]
       THEN Chain(items, items[i][1], i + 1)
       ELSE Chain(items, w, i + 1)

\* The entries where word w is an alternate.
AlternateIn(items, w) ==
  {i \in 1..Len(items) : InList(w, items[i][2]) /\ w # items[i][1]}

Min(S) == CHOOSE x \in S : \A y \in S : x <= y

\* C7: every word of the text comes out as sequential substitution in table
\* order makes it: the keyword of the first entry that lists it, rewritten
\* again by every later entry that lists what it has become.
C7_SequentialCumulative ==
  Fixed =>
    /\ Len(Out) = Len(In)
    /\ \A k \in 1..Len(In) : IsWord(In[k]) =>
         /\ k <= Len(Out)
         /\ Out[k] = Chain(before, In[k], 1)
         /\ AlternateIn(before, In[k]) # {} =>
              LET first == Min(AlternateIn(before, In[k])) IN
              \/ Out[k] = before[first][1]
              \/ \E j \in (first + 1)..Len(before) :
                   /\ j \in AlternateIn(before, before[first][1])
                   /\ Out[k] # before[first][1]

\* A word listed by two entries and rewritten twice: to the keyword of the
\* first, then to the keyword of a later entry that lists that keyword.
C7_Witness ==
  /\ Fixed
  /\ call.code = "deff"
  /\ \E i \in AlternateIn(before, "deff") : \E j \in AlternateIn(before, before[i][1]) :
       /\ i < j
       /\ call.ret = before[j][1]

\* C8: add_misspelling returns True exactly when the keyword is a key; an
\* absent misspelling is appended to the entry, a present one leaves the
\* table as it was; a second call with the same arguments changes nothing.
C8_State ==
  call.op = "add_misspelling" =>
    /\ call.ret = IsKey(before, call.correct_keyword)
    /\ Keys(Now) = Keys(before)
    /\ IsKey(before, call.correct_keyword) =>
         IF InList(call.misspelling, Entry(before, call.correct_keyword))
         THEN Now = before
         ELSE Entry(Now, call.correct_keyword)
                = Append(Entry(before, call.correct_keyword), call.misspelling)

C8_Twice ==
  (/\ call.op = "add_misspelling"
   /\ call'.op = "add_misspelling"
   /\ call'.correct_keyword = call.correct_keyword
   /\ call'.misspelling = call.misspelling)
  => Items(keyword_mappings', heap') = Now

C8_AddMisspelling == [] C8_State /\ [][C8_Twice]_vars

C8_Witness ==
  /\ call.op = "add_misspelling"
  /\ call.ret = TRUE
  /\ ~ InList(call.misspelling, Entry(before, call.correct_keyword))
  /\ Entry(Now, call.correct_keyword)
       = Append(Entry(before, call.correct_keyword), call.misspelling)

\* C9: add_misspelling for a keyword that is no key returns False and leaves
\* the table as it was.
C9_UnknownKeyword ==
  (call.op = "add_misspelling" /\ ~ IsKey(before, call.correct_keyword)) =>
    /\ call.exc = ""
    /\ call.ret = FALSE
    /\ Now = before

C9_Witness ==
  /\ call.op = "add_misspelling"
  /\ ~ IsKey(before, call.correct_keyword)
  /\ call.ret = FALSE
  /\ Now = before

\* C10: add_keyword sets the entry of its keyword -- [c] for None, c before
\* the list when the list lacks c, the list itself when it has c -- and
\* changes the entry of no other key.
C10_EntrySet ==
  call.op = "add_keyword" =>
    /\ IsKey(Now, call.correct_keyword)
    /\ Entry(Now, call.correct_keyword) =
         IF call.misspellings.kind = "None" THEN <<call.correct_keyword>>
         ELSE IF InList(call.correct_keyword, call.misspellings.val)
              THEN call.misspellings.val
              ELSE <<call.correct_keyword>> \o call.misspellings.val

C10_AddKeyword ==
  call.op = "add_keyword" =>
    /\ C10_EntrySet
    /\ \A i \in 1..Len(before) :
         before[i][1] # call.correct_keyword =>
           /\ IsKey(Now, before[i][1])
           /\ Entry(Now, before[i][1]) = before[i][2]

NoRepeat(l) == \A i \in 1..Len(l) : \A j \in 1..Len(l) : l[i] = l[j] => i = j

\* C11 (first half): every entry of the table lists its own keyword.
C11_ContainsCanonical ==
  \A i \in 1..Len(Now) : InList(Now[i][1], Now[i][2])

\* C11: in every table that calls of add_misspelling and add_keyword reach,
\* every entry lists its own keyword and lists no spelling twice.
C11_EntryInvariant ==
  \A i \in 1..Len(Now) :
    /\ InList(Now[i][1], Now[i][2])
    /\ NoRepeat(Now[i][2])

\* C12: get_misspellings returns the entry of its keyword as it stands when
\* the keyword is a key and an empty list when it is none; it raises
\* nothing and leaves the table as it was, so a keyword that was no key is
\* no key afterwards.
C12_GetMisspellings ==
  call.op = "get_misspellings" =>
    /\ call.exc = ""
    /\ call.ret = IF IsKey(before, call.correct_keyword)
                  THEN Entry(before, call.correct_keyword)
                  ELSE <<>>
    /\ Now = before
    /\ IsKey(Now, call.correct_keyword) = IsKey(before, call.correct_keyword)

\* A call for a keyword that is no key, on a table that has been changed.
C12_Witness ==
  /\ call.op = "get_misspellings"
  /\ ~ IsKey(before, call.correct_keyword)
  /\ before # InitialMappings
  /\ call.ret = <<>>
  /\ ~ IsKey(Now, call.correct_keyword)

\* C13: fix_spelling, get_misspellings and execute leave the table -- keys,
\* their order and every entry -- as it was; a step that changes the table
\* is a call of add_misspelling or of add_keyword.
C13_State ==
  call.op \in {"fix_spelling", "get_misspellings", "execute"} => Now = before

C13_Step ==
  Items(keyword_mappings', heap') # Now =>
    call'.op \in {"add_misspelling", "add_keyword"}

C13_OnlyAddsMutate == [] C13_State /\ [][C13_Step]_vars

\* execute correcting a text on a table that has been changed.
C13_Witness ==
  /\ call.op = "execute"
  /\ before # InitialMappings
  /\ Len(call.out) = 2
  /\ call.out[1][1] = "print"
  /\ call.out[2][1] = "exec" /\ call.out[2][2] # call.code
  /\ Now = before

----------------------------------------------------------------------------
(* Properties of execute on the constructor's table *)

StartsWith(s, p) == Len(s) >= Len(p) /\ SubSeq(s, 1, Len(p)) = p

\* Where execute printed the notice, ran a text, printed a label.
Notices == {i \in 1..Len(call.out) :
              call.out[i][1] = "print" /\ StartsWith(call.out[i][2], FixedNotice)}
Execs == {i \in 1..Len(call.out) : call.out[i][1] = "exec"}
Labels == {i \in 1..Len(call.out) :
             call.out[i][1] = "print" /\ StartsWith(call.out[i][2], "Phyton")}

\* C14: execute prints the 'Fixed spelling' notice exactly when
\* fix_spelling(code) is not code; the notice shows the corrected text and
\* comes before the corrected text is run.
C14_NoticeIffFixed ==
  call.op = "execute" =>
    \E f \in {fix_spelling(before, call.code)} :
      /\ f.exc = ""
      /\ (f.val # call.code) <=> (Notices # {})
      /\ \A i \in Notices :
           /\ call.out[i][2] = FixedNotice \o f.val
           /\ \E j \in Execs : i < j /\ call.out[j][2] = f.val
           /\ \A j \in Execs : i < j

C14_Witness ==
  /\ call.op = "execute"
  /\ call.code = "prin('x')"
  /\ call.raised.type = "NameError"
  /\ Len(call.out) = 3
  /\ call.out[1] = <<"print", "# Phyton: Fixed spelling -> print('x')">>
  /\ call.out[2] = <<"exec", "print('x')">>

\* The kinds of failure with a label of their own, and the kind of an
\* exception class.
Kinds == {"SyntaxError", "NameError", "TypeError", "ValueError", "ImportError",
          "KeyboardInterrupt"}
KindOf(cls) ==
  IF \E k \in Kinds : issubclass(cls, k)
  THEN CHOOSE k \in Kinds : issubclass(cls, k)
  ELSE "UnexpectedError"

LabelOf(e) ==
  CASE KindOf(e.type) = "KeyboardInterrupt" ->
         "PhytonKeyboardInterrupt: Execution interrupted"
    [] KindOf(e.type) = "UnexpectedError" ->
         "PhytonUnexpectedError: " \o e.type \o ": " \o e.msg
    [] OTHER -> "Phyton" \o KindOf(e.type) \o ": " \o e.msg

Labelled ==
  /\ call.exc = ""
  /\ \E i \in Labels : Labels = {i} /\ call.out[i][2] = LabelOf(call.raised)

----------------------------------------------------------------------------
(* Fuzzy matching: find_fuzzy_match and the correction that uses it *)

\* One row of the edit-distance table from the row before it: cur holds the
\* entries of the row so far, ch is the character of the row.
RECURSIVE next_row(_, _, _, _, _)
next_row(prev, ch, b, j, cur) ==
  IF j > Len(b) THEN cur
  ELSE LET cost == IF CharAt(b, j) = ch THEN 0 ELSE 1 IN
       next_row(prev, ch, b, j + 1,
                Append(cur, Min({prev[j + 1] + 1, cur[j] + 1, prev[j] + cost})))

RECURSIVE rows(_, _, _, _)
rows(a, b, i, prev) ==
  IF i > Len(a) THEN prev[Len(b) + 1]
  ELSE CHOOSE n \in {rows(a, b, i + 1, row) :
                       row \in {next_row(prev, CharAt(a, i), b, 1, <<i>>)}} : TRUE

\* The number of single-character insertions, deletions and substitutions
\* that make a of b.
distance(a, b) == rows(a, b, 1, [j \in 1..(Len(b) + 1) |-> j - 1])

longer(a, b) == IF Len(a) >= Len(b) THEN Len(a) ELSE Len(b)

\* The threshold that takes the same value for every canonical token.
threshold_flat(canonical) == 70

\* The similarity, in hundredths, a word must reach to be taken for the
\* canonical token: the shorter the token the higher.
threshold(canonical) ==
  IF Len(canonical) <= 3 THEN 90
  ELSE IF Len(canonical) <= 6 THEN 80
  ELSE 70

\* similarity = 1 - distance / longer; the word clears the threshold of the
\* canonical token when similarity >= threshold / 100.
clears(word, canonical, dist) ==
  (longer(word, canonical) - dist) * 100 >= threshold(canonical) * longer(word, canonical)

Max(S) == CHOOSE x \in S : \A y \in S : x >= y
Abs(n) == IF n < 0 THEN -n ELSE n

NoMatch == [found |-> FALSE, token |-> ""]

\* The best canonical token of the table for the word, whatever its score.
fuzzy_match_nearest(items, word) ==
  IF items = <<>> THEN NoMatch
  ELSE LET d == [i \in 1..Len(items) |-> distance(word, items[i][1])]
           m(i) == longer(word, items[i][1])
       IN [found |-> TRUE,
           token |-> items[CHOOSE i \in 1..Len(items) : \A j \in 1..Len(items) :
                             (m(i) - d[i]) * m(j) >= (m(j) - d[j]) * m(i)][1]]

\* The canonical token of the table the word is a near miss of: none for a
\* word of one character or less or of more than twice the length of the
\* longest canonical token; else, among the tokens whose threshold the word
\* clears, the one of highest similarity -- of smallest difference in length
\* among equals, the first in table order among those.
fuzzy_match(items, word) ==
  IF \/ Len(word) <= 1
     \/ items = <<>>
     \/ Len(word) > 2 * Max({Len(items[i][1]) : i \in 1..Len(items)})
  THEN NoMatch
  ELSE LET d == [i \in 1..Len(items) |-> distance(word, items[i][1])]
           m(i) == longer(word, items[i][1])
           gap(i) == Abs(Len(word) - Len(items[i][1]))
           ok == {i \in 1..Len(items) : clears(word, items[i][1], d[i])}
           beats(i, j) ==
             \/ (m(i) - d[i]) * m(j) > (m(j) - d[j]) * m(i)
             \/ /\ (m(i) - d[i]) * m(j) = (m(j) - d[j]) * m(i)
                /\ \/ gap(i) < gap(j)
                   \/ gap(i) = gap(j) /\ i < j
       IN IF ok = {} THEN NoMatch
          ELSE [found |-> TRUE,
                token |-> items[CHOOSE i \in ok : \A j \in ok \ {i} : beats(i, j)][1]]

\* find_fuzzy_match that does not look at the flag.
find_fuzzy_match_always(enabled, items, word) == fuzzy_match(items, word)

\* find_fuzzy_match(word) of an interpreter whose fuzzy_matching is enabled.
find_fuzzy_match(enabled, items, word) ==
  IF ~ enabled THEN NoMatch ELSE fuzzy_match(items, word)

RECURSIVE Join(_)
Join(runs) == IF runs = <<>> THEN "" ELSE Head(runs) \o Join(Tail(runs))

\* The correction of a text: the registered alternates are rewritten, and
\* with fuzzy matching enabled every word of the rewritten text that is no
\* canonical token and is a near miss of one becomes that token.
correct(enabled, items, text) ==
  LET r == fix_spelling(items, text) IN
  IF r.exc # "" \/ ~ enabled THEN r
  ELSE LET runs == Runs(r.val)
           fixed(run) ==
             IF IsWord(run) /\ ~ \E i \in 1..Len(items) : items[i][1] = run
             THEN LET match == find_fuzzy_match(enabled, items, run) IN
                  IF match.found THEN match.token ELSE run
             ELSE run
       IN [exc |-> "", val |-> Join([k \in 1..Len(runs) |-> fixed(runs[k])])]

\* find_fuzzy_match(word)
FindFuzzyMatch(word) ==
  /\ before' = Items(keyword_mappings, heap)
  /\ call' = [NoCall EXCEPT !.op = "find_fuzzy_match", !.word = word,
                            !.ret = find_fuzzy_match(fuzzy_matching,
                                                     Items(keyword_mappings, heap), word)]
  /\ UNCHANGED <<keyword_mappings, heap, held, changes, fuzzy_matching, shell>>

\* fix_spelling(code) of an interpreter that has the fuzzy_matching flag
Correct(code) ==
  \E r \in {correct(fuzzy_matching, Items(keyword_mappings, heap), code)} :
  /\ before' = Items(keyword_mappings, heap)
  /\ call' = [NoCall EXCEPT !.op = "correct", !.code = code,
                            !.ret = r.val, !.exc = r.exc]
  /\ UNCHANGED <<keyword_mappings, heap, held, changes, fuzzy_matching, shell>>

\* The words and texts the fuzzy correction is applied to.
FuzzyWords == {"defff", "printt", "prrint", "returnn", "exceptt", "importtt",
               "deff", "de", "a", "deffffff", "deffffffffffffff",
               "xyz_unknown_word", "xyz123unknown", "hello", "print", "whille",
               "finallly", "finalllly", "iff"}
FuzzyTexts ==
  FuzzyWords
  \cup {"defff hello():", "printt(\"hello\")", "prrint(\"hello\")", "returnn 5", ""}
  \cup {"x = " \o w \o "\n" : w \in FuzzyWords}

\* The constructor's table with fuzzy matching disabled or enabled, and one
\* call of find_fuzzy_match or of the correction on a text.
InitFuzzy ==
  /\ keyword_mappings = [i \in 1..Len(InitialMappings) |-> <<InitialMappings[i][1], i>>]
  /\ heap = [i \in 1..Len(InitialMappings) |-> InitialMappings[i][2]]
  /\ held = {}
  /\ call \in {[NoCall EXCEPT !.op = "pending", !.code = t] : t \in FuzzyTexts}
  /\ before = InitialMappings
  /\ changes = 0
  /\ fuzzy_matching \in BOOLEAN
  /\ Imported

NextFuzzy ==
  /\ call.op = "pending"
  /\ \/ FindFuzzyMatch(call.code)
     \/ Correct(call.code)

SpecFuzzy == InitFuzzy /\ [][NextFuzzy]_vars

----------------------------------------------------------------------------
(* Properties of fuzzy matching on the constructor's table *)

\* The word is at least pct hundredths similar to the canonical token.
Similar(word, canonical, pct) ==
  (longer(word, canonical) - distance(word, canonical)) * 100
    >= pct * longer(word, canonical)

NearMissTexts == {"defff hello():", "printt(\"hello\")", "prrint(\"hello\")", "returnn 5"}

\* C16: with fuzzy matching disabled find_fuzzy_match finds nothing for any
\* word, and the correction of a text is what rewriting the registered
\* alternates alone makes of it; the near misses defff, printt, prrint and
\* returnn stay as they are.
C16_DisabledNoFuzzy ==
  ~ fuzzy_matching =>
    /\ call.op = "find_fuzzy_match" => call.ret = NoMatch
    /\ call.op = "correct" =>
         /\ \E f \in {fix_spelling(before, call.code)} :
              call.ret = f.val /\ call.exc = f.exc
         /\ call.code \in NearMissTexts => call.ret = call.code

C16_Witness ==
  /\ ~ fuzzy_matching
  /\ call.op = "correct"
  /\ call.code = "printt(\"hello\")"
  /\ call.ret = call.code

\* C17 without defff: with fuzzy matching enabled printt and prrint become
\* print, returnn becomes return, and exceptt is matched to except.
C17_OtherNearMisses ==
  fuzzy_matching =>
    /\ call.op = "correct" =>
         /\ call.code = "printt(\"hello\")" => call.ret = "print(\"hello\")"
         /\ call.code = "prrint(\"hello\")" => call.ret = "print(\"hello\")"
         /\ call.code = "returnn 5" => call.ret = "return 5"
    /\ (call.op = "find_fuzzy_match" /\ call.word = "exceptt") =>
         call.ret = [found |-> TRUE, token |-> "except"]

\* C17: with fuzzy matching enabled defff becomes def, printt and prrint
\* become print, returnn becomes return, and exceptt is matched to except.
C17_NearMisses ==
  fuzzy_matching =>
    /\ C17_OtherNearMisses
    /\ (call.op = "correct" /\ call.code = "defff hello():") =>
         call.ret = "def hello():"

C19_NeverGuesses ==
  fuzzy_matching =>
    /\ (/\ call.op = "find_fuzzy_match"
        /\ \/ Len(call.word) <= 1
           \/ Len(call.word) > 14
           \/ call.word \in {"deffffff", "deffffffffffffff", "xyz_unknown_word"}
           \/ \A i \in 1..Len(before) :
                ~ Similar(call.word, before[i][1],
                          IF Len(before[i][1]) <= 3 THEN 90
                          ELSE IF Len(before[i][1]) <= 6 THEN 80 ELSE 70))
         => call.ret = NoMatch
    /\ (call.op = "correct"
        /\ call.code \in {"a", "deffffff", "deffffffffffffff", "xyz_unknown_word"})
         => call.ret = call.code

C19_Witness ==
  /\ fuzzy_matching
  /\ call.op = "correct"
  /\ call.code = "deffffff"
  /\ call.ret = call.code

----------------------------------------------------------------------------
(* Option correction: fix_option_spelling of the argument parser *)

\* The long options and their alternates.
option_mappings ==
  << <<"help",        <<"help", "halp", "helap", "hepl">> >>,
     <<"fuzzy",       <<"fuzzy", "fuzy", "fuzz", "fuzi", "fzzy">> >>,
     <<"interactive", <<"interactive", "interactiv", "intractiv", "interact">> >> >>

\* An argument shaped like a long option: the marker and word characters.
is_long_option(arg) ==
  /\ Len(arg) > 2
  /\ SubSeq(arg, 1, 2) = "--"
  /\ \A i \in 3..Len(arg) : IsWordChar(CharAt(arg, i))

\* find_option_match that looks for near misses only.
find_option_match_fuzzy_only(name) == fuzzy_match(option_mappings, name)

\* The canonical option of a name: the key of the first entry that lists
\* the name, else the canonical name it is a near miss of, else none.
find_option_match(name) ==
  IF \E i \in 1..Len(option_mappings) : InList(name, option_mappings[i][2])
  THEN [found |-> TRUE,
        token |-> option_mappings[
                    Min({i \in 1..Len(option_mappings) :
                           InList(name, option_mappings[i][2])})][1]]
  ELSE fuzzy_match(option_mappings, name)

\* What one argument becomes.
fix_option(arg) ==
  IF is_long_option(arg)
  THEN LET match == find_option_match(SubSeq(arg, 3, Len(arg))) IN
       IF match.found THEN "--" \o match.token ELSE arg
  ELSE arg

RECURSIVE corrections(_, _)
corrections(args, k) ==
  IF k > Len(args) THEN <<>>
  ELSE (IF fix_option(args[k]) # args[k]
        THEN << <<args[k], fix_option(args[k])>> >> ELSE <<>>)
       \o corrections(args, k + 1)

RECURSIVE kept(_, _)
kept(args, k) ==
  IF k > Len(args) THEN <<>>
  ELSE (IF is_long_option(args[k]) /\ ~ find_option_match(SubSeq(args[k], 3, Len(args[k]))).found
        THEN <<>> ELSE <<fix_option(args[k])>>)
       \o kept(args, k + 1)

\* fix_option_spelling that leaves out the long options it does not know.
fix_option_spelling_strict(args) ==
  [args |-> kept(args, 1), fixes |-> corrections(args, 1)]

\* fix_option_spelling(args): the arguments with every long option that has
\* a canonical option replaced by it, and the substitutions made, in order.
fix_option_spelling(args) ==
  [args |-> [k \in 1..Len(args) |-> fix_option(args[k])],
   fixes |-> corrections(args, 1)]

\* fix_option_spelling(args)
FixOptionSpelling(args) ==
  \E r \in {fix_option_spelling(args)} :
  /\ before' = Items(keyword_mappings, heap)
  /\ call' = [NoCall EXCEPT !.op = "fix_option_spelling", !.args = args,
                            !.ret = r.args, !.out = r.fixes]
  /\ UNCHANGED <<keyword_mappings, heap, held, changes, fuzzy_matching, shell>>

\* The command lines: at most MaxArgs arguments out of OptionArgs.
MaxArgs == 3

OptionArgs == {"--halp", "--help", "--helpx", "--fuzy", "-i", "file.py",
               "--unknown", "--valid"}

RECURSIVE ArgSeqs(_)
ArgSeqs(n) ==
  IF n = 0 THEN {<<>>}
  ELSE ArgSeqs(n - 1) \cup {Append(a, x) : a \in ArgSeqs(n - 1), x \in OptionArgs}

InitOptions ==
  /\ keyword_mappings = [i \in 1..Len(InitialMappings) |-> <<InitialMappings[i][1], i>>]
  /\ heap = [i \in 1..Len(InitialMappings) |-> InitialMappings[i][2]]
  /\ held = {}
  /\ call \in {[NoCall EXCEPT !.op = "pending", !.args = a] : a \in ArgSeqs(MaxArgs)}
  /\ before = InitialMappings
  /\ changes = 0
  /\ fuzzy_matching = FALSE
  /\ Imported

NextOptions == call.op = "pending" /\ FixOptionSpelling(call.args)

SpecOptions == InitOptions /\ [][NextOptions]_vars

\* C20: the result of fix_option_spelling has the arguments of the command
\* line in their places: as many as were given, each either as given or the
\* canonical long option in its place; an argument that is no long option,
\* and a long option that no entry lists and that is a near miss of no
\* canonical option (--unknown, --valid), is as given.
C20_OptionsKeepPlace ==
  call.op = "fix_option_spelling" =>
    /\ Len(call.ret) = Len(call.args)
    /\ \A k \in 1..Len(call.args) :
         /\ k <= Len(call.ret)
         /\ \/ call.ret[k] = call.args[k]
            \/ \E i \in 1..Len(option_mappings) : call.ret[k] = "--" \o option_mappings[i][1]
         /\ SubSeq(call.args[k], 1, 2) # "--" => call.ret[k] = call.args[k]
         /\ call.args[k] \in {"-i", "file.py", "--unknown", "--valid"}
              => call.ret[k] = call.args[k]
         /\ (\A i \in 1..Len(option_mappings) :
               /\ ~ InList(SubSeq(call.args[k], 3, Len(call.args[k])), option_mappings[i][2])
               /\ ~ Similar(SubSeq(call.args[k], 3, Len(call.args[k])), option_mappings[i][1],
                            IF Len(option_mappings[i][1]) <= 3 THEN 90
                            ELSE IF Len(option_mappings[i][1]) <= 6 THEN 80 ELSE 70))
              => call.ret[k] = call.args[k]

C20_Witness ==
  /\ call.op = "fix_option_spelling"
  /\ call.args = <<"--valid", "--halp", "file.py">>
  /\ call.ret = <<"--valid", "--help", "file.py">>

----------------------------------------------------------------------------
(* Option correction over the registered alternates *)

\* The command lines of registered spellings: at most MaxFixes arguments,
\* each a long option spelled as some entry lists it, or a file name.
MaxFixes == 2

AlternateArgs ==
  UNION {{"--" \o option_mappings[i][2][j] : j \in 1..Len(option_mappings[i][2])} :
           i \in 1..Len(option_mappings)} \cup {"file.py"}

RECURSIVE AlternateSeqs(_)
AlternateSeqs(n) ==
  IF n = 0 THEN {<<>>}
  ELSE AlternateSeqs(n - 1)
         \cup {Append(a, x) : a \in AlternateSeqs(n - 1), x \in AlternateArgs}

InitAlternates ==
  /\ keyword_mappings = [i \in 1..Len(InitialMappings) |-> <<InitialMappings[i][1], i>>]
  /\ heap = [i \in 1..Len(InitialMappings) |-> InitialMappings[i][2]]
  /\ held = {}
  /\ call \in {[NoCall EXCEPT !.op = "pending", !.args = a] : a \in AlternateSeqs(MaxFixes)}
  /\ before = InitialMappings
  /\ changes = 0
  /\ fuzzy_matching = FALSE
  /\ Imported

NextAlternates == call.op = "pending" /\ FixOptionSpelling(call.args)

SpecAlternates == InitAlternates /\ [][NextAlternates]_vars

\* The places of the command line whose argument came back different.
Substituted == {k \in 1..Len(call.args) : call.ret[k] # call.args[k]}

\* C21: every registered alternate of a canonical long option comes back as
\* that canonical option; the substitutions recorded are exactly the pairs
\* (original, canonical) of the arguments that changed, in argument order;
\* an argument that is already canonical records nothing.
C21_AlternatesRecorded ==
  call.op = "fix_option_spelling" =>
    /\ Len(call.ret) = Len(call.args)
    /\ \A k \in 1..Len(call.args), i \in 1..Len(option_mappings) :
         InList(SubSeq(call.args[k], 3, Len(call.args[k])), option_mappings[i][2])
           => call.ret[k] = "--" \o option_mappings[i][1]
    /\ Len(call.out) = Cardinality(Substituted)
    /\ \A k \in Substituted :
         call.out[Cardinality({m \in Substituted : m <= k})] = <<call.args[k], call.ret[k]>>
    /\ \A j \in 1..Len(call.out) :
         call.out[j][1] \notin {"--help", "--fuzzy", "--interactive"}

C21_Witness ==
  /\ call.op = "fix_option_spelling"
  /\ call.args = <<"--intractiv", "--halp">>
  /\ call.ret = <<"--interactive", "--help">>
  /\ call.out = << <<"--intractiv", "--interactive">>, <<"--halp", "--help">> >>

----------------------------------------------------------------------------
(* main and interactive_mode: the process around the interpreter *)

\* The interpreter object and what is recorded of the calls made on it.
interpreter == <<keyword_mappings, heap, held, call, before, changes, fuzzy_matching>>

\* str.strip(), str.rstrip(): without the white space at the ends.
Whitespace == {" ", "\t", "\n", "\r", "\f"}

RECURSIVE lstrip(_)
lstrip(s) ==
  IF s # "" /\ CharAt(s, 1) \in Whitespace THEN lstrip(SubSeq(s, 2, Len(s))) ELSE s

RECURSIVE rstrip(_)
rstrip(s) ==
  IF s # "" /\ CharAt(s, Len(s)) \in Whitespace
  THEN rstrip(SubSeq(s, 1, Len(s) - 1)) ELSE s

\* strip that takes nothing off.
strip_nothing(s) == s

strip(s) == lstrip(rstrip(s))

\* str.endswith(suffix)
endswith(s, suffix) ==
  Len(s) >= Len(suffix) /\ SubSeq(s, Len(s) - Len(suffix) + 1, Len(s)) = suffix

\* startswith that knows the four spaces only.
startswith_spaces(s, prefixes) ==
  Len(s) >= 4 /\ SubSeq(s, 1, 4) = "    "

\* str.startswith(prefixes), with a tuple of prefixes
startswith(s, prefixes) ==
  \E p \in prefixes : Len(s) >= Len(p) /\ SubSeq(s, 1, Len(p)) = p

\* join that gives the last line only.
join_last(sep, lines) == IF lines = <<>> THEN "" ELSE lines[Len(lines)]

\* '\n'.join(lines)
RECURSIVE join(_, _)
join(sep, lines) ==
  IF lines = <<>> THEN ""
  ELSE IF Len(lines) = 1 THEN lines[1]
  ELSE lines[1] \o sep \o join(sep, Tail(lines))

\* What interactive_mode prints first, and on leaving (the plant signs that
\* end the first and the last of these texts are left out).
Banner ==
  << <<"print", "Welcome to Phyton (Greek for 'plant')">>,
     <<"print", "The Python interpreter for bad spellers!">>,
     <<"print", "Type 'exit()' or 'quit()' to leave">>,
     <<"print", "Use empty line to execute multi-line statements">>,
     <<"print", "">> >>

Goodbye == "Goodbye from Phyton!"

ExitCommands == {"exit()", "quit()", "exit", "quit"}

\* What input() delivers: a line, a KeyboardInterrupt, or the end of input.
Line(text) == [kind |-> "line", text |-> text]
Interrupt == [kind |-> "interrupt", text |-> ""]
EndOfInput == [kind |-> "eof", text |-> ""]

\* How many times input() is called at most.
MaxLines == 3

\* interactive_mode that runs what is pending before it leaves.
interactive_mode_flush(event, outcome) ==
  /\ pc = "prompt"
  /\ Len(typed) < MaxLines
  /\ typed' = Append(typed, event)
  /\ LET prompt == <<"input", IF multi_line_buffer # <<>> THEN "phyton... " ELSE "phyton>>> ">>
         line == event.text
         buffer == IF strip(line) # "" THEN Append(multi_line_buffer, line)
                   ELSE multi_line_buffer
     IN
     CASE event.kind = "interrupt" ->
            /\ io' = io \o <<prompt, <<"print", "\nKeyboardInterrupt">> >>
            /\ multi_line_buffer' = <<>>
            /\ UNCHANGED <<interpreter, argv, pc, executed, globals>>
       [] event.kind = "eof" ->
            /\ io' = io \o <<prompt, <<"print", "\n" \o Goodbye>> >>
            /\ pc' = "exited"
            /\ UNCHANGED <<interpreter, argv, multi_line_buffer, executed, globals>>
       [] event.kind = "line" /\ Lower(strip(line)) \in ExitCommands /\ multi_line_buffer = <<>> ->
            /\ io' = io \o <<prompt, <<"print", Goodbye>> >>
            /\ pc' = "exited"
            /\ UNCHANGED <<interpreter, argv, multi_line_buffer, executed, globals>>
       [] event.kind = "line" /\ Lower(strip(line)) \in ExitCommands /\ multi_line_buffer # <<>> ->
            /\ execute(join("\n", multi_line_buffer), outcome)
            /\ executed' = Append(executed, join("\n", multi_line_buffer))
            /\ io' = io \o <<prompt>> \o call'.out \o << <<"print", Goodbye>> >>
            /\ multi_line_buffer' = <<>>
            /\ pc' = "exited"
            /\ UNCHANGED <<argv, globals>>
       [] OTHER ->
            IF strip(line) # ""
               /\ (endswith(rstrip(line), ":") \/ (buffer # <<>> /\ startswith(line, {"    ", "\t"})))
            THEN /\ io' = io \o <<prompt>>
                 /\ multi_line_buffer' = buffer
                 /\ UNCHANGED <<interpreter, argv, pc, executed, globals>>
            ELSE IF buffer # <<>> \/ strip(line) # ""
            THEN LET code == IF buffer # <<>> THEN join("\n", buffer) ELSE line IN
                 /\ execute(code, outcome)
                 /\ executed' = Append(executed, code)
                 /\ io' = io \o <<prompt>> \o call'.out
                 /\ IF call'.exc = ""
                    THEN multi_line_buffer' = <<>> /\ pc' = pc
                    ELSE multi_line_buffer' = buffer /\ pc' = "exited"
                 /\ UNCHANGED <<argv, globals>>
            ELSE /\ io' = io \o <<prompt>>
                 /\ UNCHANGED <<interpreter, argv, pc, multi_line_buffer, executed, globals>>

\* interactive_mode(), one turn of its loop: the prompt is shown and input()
\* delivers event.  An interrupt empties the buffer; the end of input and an
\* exit command leave the loop; a line that is not blank joins the buffer,
\* and stays there when it ends with a colon or is indented; otherwise the
\* buffer, if it holds anything, is joined and passed to execute, whose run
\* does outcome, and is emptied.  An exception that leaves execute is taken
\* by neither except clause of the loop nor by main: the process ends.
\* The lines read here bind no name when they run.
interactive_mode(event, outcome) ==
  /\ pc = "prompt"
  /\ Len(typed) < MaxLines
  /\ typed' = Append(typed, event)
  /\ LET prompt == <<"input", IF multi_line_buffer # <<>> THEN "phyton... " ELSE "phyton>>> ">>
         line == event.text
         buffer == IF strip(line) # "" THEN Append(multi_line_buffer, line)
                   ELSE multi_line_buffer
     IN
     CASE event.kind = "interrupt" ->
            /\ io' = io \o <<prompt, <<"print", "\nKeyboardInterrupt">> >>
            /\ multi_line_buffer' = <<>>
            /\ UNCHANGED <<interpreter, argv, pc, executed, globals>>
       [] event.kind = "eof" ->
            /\ io' = io \o <<prompt, <<"print", "\n" \o Goodbye>> >>
            /\ pc' = "exited"
            /\ UNCHANGED <<interpreter, argv, multi_line_buffer, executed, globals>>
       [] event.kind = "line" /\ Lower(strip(line)) \in ExitCommands ->
            /\ io' = io \o <<prompt, <<"print", Goodbye>> >>
            /\ pc' = "exited"
            /\ UNCHANGED <<interpreter, argv, multi_line_buffer, executed, globals>>
       [] OTHER ->
            IF strip(line) # ""
               /\ (endswith(rstrip(line), ":") \/ (buffer # <<>> /\ startswith(line, {"    ", "\t"})))
            THEN /\ io' = io \o <<prompt>>
                 /\ multi_line_buffer' = buffer
                 /\ UNCHANGED <<interpreter, argv, pc, executed, globals>>
            ELSE IF buffer # <<>> \/ strip(line) # ""
            THEN LET code == IF buffer # <<>> THEN join("\n", buffer) ELSE line IN
                 /\ execute(code, outcome)
                 /\ executed' = Append(executed, code)
                 /\ io' = io \o <<prompt>> \o call'.out
                 /\ IF call'.exc = ""
                    THEN multi_line_buffer' = <<>> /\ pc' = pc
                    ELSE multi_line_buffer' = buffer /\ pc' = "exited"
                 /\ UNCHANGED <<argv, globals>>
            ELSE /\ io' = io \o <<prompt>>
                 /\ UNCHANGED <<interpreter, argv, pc, multi_line_buffer, executed, globals>>

\* The except clauses of main, in their order, and what each prints.
FileHandlers == <<"FileNotFoundError", "PermissionError", "UnicodeDecodeError",
                  "OSError", "Exception">>

file_handler(cls) ==
  IF \E i \in 1..Len(FileHandlers) : issubclass(cls, FileHandlers[i])
  THEN Min({i \in 1..Len(FileHandlers) : issubclass(cls, FileHandlers[i])})
  ELSE 0

file_report(i, filename, e) ==
  CASE i = 0 -> <<>>
    [] i = 1 -> << <<"print", "PhytonError: File '" \o filename \o "' not found">> >>
    [] i = 2 -> << <<"print", "PhytonError: Permission denied reading file '"
                                \o filename \o "'">> >>
    [] i = 3 -> << <<"print", "PhytonError: Cannot decode file '" \o filename
                                \o "': " \o e.msg>> >>
    [] i = 4 -> << <<"print", "PhytonError: OS error reading file '" \o filename
                                \o "': " \o e.msg>> >>
    [] OTHER -> << <<"print", "PhytonUnexpectedError: " \o TypeName(e.type)
                                \o ": " \o e.msg>>,
                   <<"print", "This might be a bug in Phyton.">> >>

\* main that goes on to the prompt after a file.
main_then_prompt(opened, outcome) ==
  /\ pc = "main"
  /\ IF Len(argv) > 0
     THEN LET filename == argv[1] IN
          IF opened.type = ""
          THEN /\ execute(opened.text, outcome)
               /\ executed' = Append(executed, opened.text)
               /\ io' = io \o << <<"open", filename>>, <<"read", opened.text>> >> \o call'.out \o Banner
               /\ pc' = IF call'.exc = "" THEN "prompt" ELSE "exited"
               /\ UNCHANGED <<argv, multi_line_buffer, typed, globals>>
          ELSE /\ io' = io \o << <<"open", filename>>, <<"raise", opened.type>> >>
                        \o file_report(file_handler(opened.type), filename, opened)
               /\ pc' = "exited"
               /\ UNCHANGED <<interpreter, argv, multi_line_buffer, typed, executed, globals>>
     ELSE /\ io' = io \o Banner
          /\ multi_line_buffer' = <<>>
          /\ pc' = "prompt"
          /\ UNCHANGED <<interpreter, argv, typed, executed, globals>>

\* main(): with an argument, the file of that name is opened and read, which
\* does opened -- it gives the file's text, or it raises -- and the text is
\* passed to execute, whose run does outcome; without one, interactive_mode
\* begins: the banner is printed and the loop is at its first prompt.
main(opened, outcome) ==
  /\ pc = "main"
  /\ IF Len(argv) > 0
     THEN LET filename == argv[1] IN
          IF opened.type = ""
          THEN /\ execute(opened.text, outcome)
               /\ executed' = Append(executed, opened.text)
               /\ io' = io \o << <<"open", filename>>, <<"read", opened.text>> >> \o call'.out
               /\ pc' = "exited"
               /\ UNCHANGED <<argv, multi_line_buffer, typed, globals>>
          ELSE /\ io' = io \o << <<"open", filename>>, <<"raise", opened.type>> >>
                        \o file_report(file_handler(opened.type), filename, opened)
               /\ pc' = "exited"
               /\ UNCHANGED <<interpreter, argv, multi_line_buffer, typed, executed, globals>>
     ELSE /\ io' = io \o Banner
          /\ multi_line_buffer' = <<>>
          /\ pc' = "prompt"
          /\ UNCHANGED <<interpreter, argv, typed, executed, globals>>

\* The command lines, what reading the file does, what a run does, and what
\* the terminal delivers.
Argvs == {<<>>, <<"script.phy">>, <<"--help">>, <<"--interactive">>,
          <<"script.phy", "other.phy">>}

FileTexts == {"prin(1)", "iff x:\n\tprin(y)\nprin(x)"}
FileErrors == {"FileNotFoundError", "PermissionError", "UnicodeDecodeError",
               "IsADirectoryError", "MemoryError", "KeyboardInterrupt"}
FileOutcomes ==
  {[type |-> "", msg |-> "", text |-> t] : t \in FileTexts}
    \cup {[type |-> c, msg |-> "oops", text |-> ""] : c \in FileErrors}

ShellOutcomes == {Returned, [type |-> "SystemExit", msg |-> ""]}

Events == {Line(t) : t \in {"", "\t", " EXIT() ", "iff x: ", "    prin(y)", "\tprin(y)",
                             "prin(x)"}}
            \cup {Interrupt, EndOfInput}

InitShell ==
  /\ keyword_mappings = [i \in 1..Len(InitialMappings) |-> <<InitialMappings[i][1], i>>]
  /\ heap = [i \in 1..Len(InitialMappings) |-> InitialMappings[i][2]]
  /\ held = {}
  /\ call = NoCall
  /\ before = InitialMappings
  /\ changes = 0
  /\ fuzzy_matching = FALSE
  /\ argv \in Argvs
  /\ pc = "main"
  /\ multi_line_buffer = <<>>
  /\ typed = <<>>
  /\ io = <<>>
  /\ executed = <<>>
  /\ globals = {}

NextShell ==
  \/ \E opened \in FileOutcomes, outcome \in ShellOutcomes : main(opened, outcome)
  \/ \E event \in Events, outcome \in ShellOutcomes : interactive_mode(event, outcome)

SpecShell == InitShell /\ [][NextShell]_vars

----------------------------------------------------------------------------
(* The claims about main and interactive_mode *)

\* The files the process has opened, the prompts it has shown and the texts
\* it has printed, in order.
Opened == SelectSeq(io, LAMBDA x : x[1] = "open")
Prompts == SelectSeq(io, LAMBDA x : x[1] = "input")
Printed == SelectSeq(io, LAMBDA x : x[1] = "print")

HelpText == "Phyton - A Python interpreter"

\* C22: --help, --fuzzy and --interactive on the command line are options
\* and not file names; a process started with --help shows the help text and
\* ends, without opening a file, executing a text or showing a prompt.
C22_HelpIsOption ==
  (pc # "main" /\ argv # <<>> /\ argv[1] \in {"--help", "--fuzzy", "--interactive"}) =>
     /\ Opened = <<>>
     /\ argv[1] = "--help" =>
          /\ pc = "exited"
          /\ executed = <<>>
          /\ Prompts = <<>>
          /\ \E k \in 1..Len(Printed) : StartsWith(Printed[k][2], HelpText)

\* What reading the files gave: their texts, and the exceptions raised.
Read == SelectSeq(io, LAMBDA x : x[1] = "read")
Failed == SelectSeq(io, LAMBDA x : x[1] = "raise")

NonBlank(line) == \E i \in 1..Len(line) : CharAt(line, i) \notin Whitespace

IsExit(line) ==
  \E i, j \in 1..Len(line) :
    /\ j - i + 1 \in {Len(c) : c \in ExitCommands}
    /\ \A k \in 1..Len(line) : (k < i \/ k > j) => CharAt(line, k) \in Whitespace
    /\ Lower(SubSeq(line, i, j)) \in ExitCommands

EndsColon(line) ==
  \E i \in 1..Len(line) :
    /\ CharAt(line, i) = ":"
    /\ \A k \in (i + 1)..Len(line) : CharAt(line, k) \in Whitespace

Indented(line) ==
  \/ Len(line) >= 4 /\ \A k \in 1..4 : CharAt(line, k) = " "
  \/ Len(line) >= 1 /\ CharAt(line, 1) = "\t"

\* The lines of a buffer with a newline between each two.
RECURSIVE Joined(_)
Joined(lines) ==
  IF lines = <<>> THEN ""
  ELSE lines[1] \o (IF Len(lines) > 1 THEN "\n" ELSE "") \o Joined(Tail(lines))

\* A turn of the loop, and what input() delivered in it.
Turn == pc = "prompt" /\ Len(typed') = Len(typed) + 1
Delivered == typed'[Len(typed')]

C24_Step ==
  (Turn /\ Delivered.kind = "line") =>
    LET line == Delivered.text IN
    /\ (NonBlank(line) /\ ~ IsExit(line) /\ (EndsColon(line) \/ Indented(line))) =>
         /\ multi_line_buffer' = Append(multi_line_buffer, line)
         /\ executed' = executed
         /\ call' = call
         /\ pc' = "prompt"
    /\ (line = "" /\ multi_line_buffer # <<>>) =>
         /\ executed' = Append(executed, Joined(multi_line_buffer))
         /\ call'.op = "execute" /\ call'.code = Joined(multi_line_buffer)
         /\ pc' = "prompt" => multi_line_buffer' = <<>>
    /\ (line = "" /\ multi_line_buffer = <<>>) =>
         /\ executed' = executed
         /\ call' = call
         /\ multi_line_buffer' = <<>>

\* C24: in a turn of the loop, a line that is neither blank nor an exit
\* command and that ends with a colon (white space after it aside) or
\* begins with four spaces or a tab is appended to the buffer, and nothing
\* is executed; an empty line read with lines in the buffer calls execute
\* once, on those lines joined by newlines in the order they were entered,
\* and the loop goes on with an empty buffer; an empty line read with an
\* empty buffer executes nothing.
C24_BufferedUntilEmptyLine == [][C24_Step]_vars

C24_Witness ==
  /\ pc = "prompt"
  /\ typed = <<Line("iff x: "), Line("\tprin(y)"), Line("")>>
  /\ executed = <<"iff x: \n\tprin(y)">>
  /\ multi_line_buffer = <<>>

\* The turn read an exit command or the end of input; the run of the turn
\* raised an exception that left execute.
Leaves == \/ Delivered.kind = "eof"
          \/ Delivered.kind = "line" /\ IsExit(Delivered.text)

Escaped == executed' # executed /\ call'.op = "execute" /\ call'.exc # ""

\* Once the loop has ended nothing is executed.
Ended == pc = "exited" => pc' = "exited" /\ executed' = executed

C25_ExitStep ==
  Turn =>
    /\ (pc' = "exited") <=> Leaves
    /\ pc' # "exited" => pc' = "prompt" /\ Len(Prompts') = Len(Prompts) + 1
    /\ Leaves => executed' = executed /\ call' = call

C25_EscapeStep ==
  Turn =>
    /\ (pc' = "exited") <=> (Leaves \/ Escaped)
    /\ pc' # "exited" => pc' = "prompt" /\ Len(Prompts') = Len(Prompts) + 1
    /\ Leaves => executed' = executed /\ call' = call
    /\ Escaped => ~ issubclass(call'.exc, "Exception") /\ call'.exc # "KeyboardInterrupt"

RECURSIVE Split(_)
Split(text) ==
  IF \E i \in 1..Len(text) : CharAt(text, i) = "\n"
  THEN LET i == Min({k \in 1..Len(text) : CharAt(text, k) = "\n"}) IN
       <<SubSeq(text, 1, i - 1)>> \o Split(SubSeq(text, i + 1, Len(text)))
  ELSE <<text>>

RECURSIVE Flat(_)
Flat(texts) == IF texts = <<>> THEN <<>> ELSE Split(texts[1]) \o Flat(Tail(texts))

\* a is b with some of its members left out.
RECURSIVE IsSubseq(_, _)
IsSubseq(a, b) ==
  \/ a = <<>>
  \/ /\ b # <<>>
     /\ IF a[1] = b[1] THEN IsSubseq(Tail(a), Tail(b)) ELSE IsSubseq(a, Tail(b))

\* The lines read that are neither blank nor exit commands; the lines that
\* have been passed to execute; the lines waiting at the prompt.
Entered ==
  LET lines == SelectSeq(typed, LAMBDA e : e.kind = "line" /\ NonBlank(e.text)
                                            /\ ~ IsExit(e.text))
  IN [k \in 1..Len(lines) |-> lines[k].text]
Ran == Flat(executed)
Pending == IF pc = "prompt" THEN multi_line_buffer ELSE <<>>

C26_State ==
  (argv = <<>> /\ pc # "main") =>
    /\ IsSubseq(Ran \o Pending, Entered)
    /\ Len(Ran) <= Len(Entered)

C26_Step ==
  Turn =>
    IF Delivered.kind = "line" /\ NonBlank(Delivered.text) /\ ~ IsExit(Delivered.text)
    THEN \/ Ran' \o Pending' = Ran \o Pending \o <<Delivered.text>>
         \/ Escaped /\ Ran' = Ran \o Pending \o <<Delivered.text>>
    ELSE IF Delivered.kind = "line" /\ ~ IsExit(Delivered.text)
    THEN \/ Ran' \o Pending' = Ran \o Pending
         \/ Escaped /\ Ran' = Ran \o Pending
    ELSE executed' = executed /\ Pending' = <<>>

\* C26: every line read that is neither blank nor an exit command is passed
\* to execute at most once, and once unless the buffer it waits in is
\* dropped first, by a KeyboardInterrupt, an exit command or the end of
\* input; the lines reach execute in the order they were entered, and no
\* line is in two calls of execute.
C26_EachLineOnce == [] C26_State /\ [][C26_Step]_vars

C26_Witness ==
  /\ pc = "prompt"
  /\ typed = <<Line("iff x: "), Interrupt, Line("prin(x)")>>
  /\ executed = <<"prin(x)">>
  /\ multi_line_buffer = <<>>

C27_State ==
  pc = "prompt" =>
    /\ \A k \in 1..Len(multi_line_buffer) : NonBlank(multi_line_buffer[k])
    /\ multi_line_buffer # <<>> =>
         LET last == multi_line_buffer[Len(multi_line_buffer)] IN
         EndsColon(last) \/ Indented(last)

C27_Step ==
  Turn =>
    /\ Len(Prompts') = Len(Prompts) + 1
    /\ Prompts'[Len(Prompts')][2] \in {"phyton... ", "phyton>>> "}
    /\ Prompts'[Len(Prompts')][2] = "phyton... " <=> multi_line_buffer # <<>>

\* C27: at every prompt the continuation prompt 'phyton... ' is shown
\* exactly when the buffer holds lines, and the first prompt 'phyton>>> '
\* otherwise; no line of the buffer is blank; and when the buffer holds
\* lines at a prompt the last of them ends with a colon or begins with four
\* spaces or a tab.
C27_PromptTellsBuffer == [] C27_State /\ [][C27_Step]_vars

C27_Witness ==
  /\ pc = "prompt"
  /\ typed = <<Line("iff x: "), Line("\t"), Line("    prin(y)")>>
  /\ multi_line_buffer = <<"    prin(y)">>
  /\ [k \in 1..Len(Prompts) |-> Prompts[k][2]] = <<"phyton>>> ", "phyton... ", "phyton>>> ">>

----------------------------------------------------------------------------
(* The loop and the failures of the texts it runs *)

\* The turns in which a text fails: each kind of failure that execute
\* reports, after at most MaxFailures deliveries of input().
MaxFailures == 2

FailureClasses == {"SyntaxError", "NameError", "TypeError", "ValueError",
                   "ImportError", "KeyboardInterrupt", "ZeroDivisionError"}
FailureOutcomes == {Returned} \cup [type : FailureClasses, msg : {"oops"}]
FailureEvents == {Line("iff x: "), Line("prin(x)"), Line(""), Interrupt}

InitFailures ==
  /\ keyword_mappings = [i \in 1..Len(InitialMappings) |-> <<InitialMappings[i][1], i>>]
  /\ heap = [i \in 1..Len(InitialMappings) |-> InitialMappings[i][2]]
  /\ held = {}
  /\ call = NoCall
  /\ before = InitialMappings
  /\ changes = 0
  /\ fuzzy_matching = FALSE
  /\ argv = <<>>
  /\ pc = "main"
  /\ multi_line_buffer = <<>>
  /\ typed = <<>>
  /\ io = <<>>
  /\ executed = <<>>
  /\ globals = {}

NextFailures ==
  \/ \E opened \in FileOutcomes : main(opened, Returned)
  \/ /\ Len(typed) < MaxFailures
     /\ \E event \in FailureEvents, outcome \in FailureOutcomes :
          interactive_mode(event, outcome)

SpecFailures == InitFailures /\ [][NextFailures]_vars

C28_Step ==
  Turn =>
    /\ Delivered.kind = "interrupt" =>
         /\ multi_line_buffer' = <<>>
         /\ pc' = "prompt"
         /\ executed' = executed /\ call' = call
         /\ io'[Len(io')] = <<"print", "\nKeyboardInterrupt">>
    /\ (executed' # executed /\ call'.raised.type # "") =>
         /\ call'.op = "execute" /\ call'.exc = ""
         /\ \E k \in (Len(io) + 1)..Len(io') : io'[k] = <<"print", LabelOf(call'.raised)>>
         /\ multi_line_buffer' = <<>>
         /\ pc' = "prompt"

\* C28: the loop outlives failures.  A KeyboardInterrupt at the prompt
\* empties the buffer and the loop goes on, at the first prompt; a failure
\* of the text that is run, of any of the kinds execute reports (syntax,
\* name, type, value, import, interruption, unexpected), is printed under
\* its label by execute, and the loop goes on with an empty buffer.
C28_SurvivesFailures == [][C28_Step]_vars

C28_Witness ==
  /\ pc = "prompt"
  /\ typed = <<Line("iff x: "), Line("prin(x)")>>
  /\ executed = <<"iff x: \nprin(x)">>
  /\ call.raised = [type |-> "SyntaxError", msg |-> "oops"]
  /\ io[Len(io)] = <<"print", "PhytonSyntaxError: oops">>
  /\ multi_line_buffer = <<>>

----------------------------------------------------------------------------
(* exec(fixed_code, globals()): the namespace of the executed code *)

\* The statements of the texts that are run here, ";" between them:
\*   NAME = 1            binds NAME
\*   def NAME(): pass    binds NAME
\*   print(NAME)         reads NAME
\*   NAME()              reads NAME
\*   1/0                 raises ZeroDivisionError
\* Anything else does not compile.
Statements(text) ==
  LET RECURSIVE split(_)
      split(s) ==
        IF \E i \in 1..(Len(s) - 1) : SubSeq(s, i, i + 1) = "; "
        THEN LET i == CHOOSE k \in 1..(Len(s) - 1) :
                        /\ SubSeq(s, k, k + 1) = "; "
                        /\ \A m \in 1..(k - 1) : SubSeq(s, m, m + 1) # "; "
             IN <<SubSeq(s, 1, i - 1)>> \o split(SubSeq(s, i + 2, Len(s)))
        ELSE <<s>>
  IN split(text)

IsName(s) == s # "" /\ \A i \in 1..Len(s) : IsWordChar(CharAt(s, i))

statement(s) ==
  CASE endswith(s, " = 1") /\ IsName(SubSeq(s, 1, Len(s) - 4)) ->
         [does |-> "bind", name |-> SubSeq(s, 1, Len(s) - 4)]
    [] startswith(s, {"def "}) /\ endswith(s, "(): pass") /\ IsName(SubSeq(s, 5, Len(s) - 8)) ->
         [does |-> "bind", name |-> SubSeq(s, 5, Len(s) - 8)]
    [] startswith(s, {"print("}) /\ endswith(s, ")") /\ IsName(SubSeq(s, 7, Len(s) - 1)) ->
         [does |-> "read", name |-> SubSeq(s, 7, Len(s) - 1)]
    [] endswith(s, "()") /\ IsName(SubSeq(s, 1, Len(s) - 2)) ->
         [does |-> "read", name |-> SubSeq(s, 1, Len(s) - 2)]
    [] s = "1/0" -> [does |-> "raise", name |-> "ZeroDivisionError"]
    [] OTHER -> [does |-> "", name |-> ""]

Builtins == {"print"}

RECURSIVE run(_, _, _)
run(stmts, k, g) ==
  IF k > Len(stmts) THEN [globals |-> g, raised |-> Returned]
  ELSE LET st == statement(stmts[k]) IN
       CASE st.does = "bind" -> run(stmts, k + 1, g \cup {st.name})
         [] st.does = "read" ->
              IF st.name \in g \cup Builtins THEN run(stmts, k + 1, g)
              ELSE [globals |-> g,
                    raised |-> [type |-> "NameError",
                                msg |-> "name '" \o st.name \o "' is not defined"]]
         [] OTHER -> [globals |-> g,
                      raised |-> [type |-> st.name, msg |-> "division by zero"]]

\* exec(text, g): the text is compiled, and then its statements run one
\* after the other in the namespace g, until one raises; what has been bound
\* by then stays bound.
exec(text, g) ==
  LET stmts == Statements(text) IN
  IF \E k \in 1..Len(stmts) : statement(stmts[k]).does = ""
  THEN [globals |-> g, raised |-> [type |-> "SyntaxError", msg |-> "invalid syntax (<string>, line 1)"]]
  ELSE run(stmts, 1, g)

\* interpreter.execute(code) by a caller that has imported the module: the
\* run does what the text says in the module's namespace.
Execute(code) ==
  \E r \in {fix_spelling_in(globals, Items(keyword_mappings, heap), code)} :
  \E o \in {exec(r.val, globals)} :
    /\ execute(code, o.raised)
    /\ globals' = IF r.exc = "" THEN o.globals ELSE globals
    /\ UNCHANGED <<argv, pc, multi_line_buffer, typed, io, executed>>

\* How many interpreter objects are made at most.
MaxInterpreters == 2

\* interpreter = PhytonInterpreter(): the caller goes on with a new object,
\* which has a dict and lists of its own.
NewInterpreter ==
  /\ Len(heap) < MaxInterpreters * Len(InitialMappings)
  /\ heap' = heap \o [i \in 1..Len(InitialMappings) |-> InitialMappings[i][2]]
  /\ keyword_mappings' =
       [i \in 1..Len(InitialMappings) |-> <<InitialMappings[i][1], Len(heap) + i>>]
  /\ call' = NoCall
  /\ before' = InitialMappings
  /\ UNCHANGED <<held, changes, fuzzy_matching, shell>>

GlobalTexts ==
  {"deff f(): pass", "f()", "y = 1; 1/0", "prin(y)", "prin(y); f()", "re = 1", "x = = 1"}

NextGlobals ==
  \/ \E code \in GlobalTexts : Execute(code)
  \/ NewInterpreter

SpecGlobals == Init /\ [][NextGlobals]_vars

\* The names a text of GlobalTexts binds before anything in it fails, and
\* the names it reads.
Binds(text) ==
  CASE text = "deff f(): pass" -> {"f"}
    [] text = "y = 1; 1/0" -> {"y"}
    [] text = "re = 1" -> {"re"}
    [] OTHER -> {}

Reads(text) ==
  CASE text = "f()" -> {"f"}
    [] text = "prin(y)" -> {"y"}
    [] text = "prin(y); f()" -> {"y", "f"}
    [] OTHER -> {}

C29_Step ==
  /\ globals \subseteq globals'
  /\ (call'.op = "execute" /\ call' # call) =>
       /\ Binds(call'.code) \subseteq globals'
       /\ call'.raised.type = "NameError" <=> ~ (Reads(call'.code) \subseteq globals)
       /\ (Reads(call'.code) # {} /\ Reads(call'.code) \subseteq globals)
            => call'.raised = Returned /\ call'.out[Len(call'.out)][1] = "exec"

\* C29: the texts run in one namespace, which outlives the calls: a name a
\* call of execute has bound is there for every later call, also one made
\* on another interpreter object, so that a text reading it runs; and no
\* call, failed or not, and no new interpreter takes a name away.
C29_SharedNamespace == [][C29_Step]_vars

----------------------------------------------------------------------------
(* Misspellings added to the constructor's table *)

\* The calls made on the table of a new interpreter: "def" comes before
\* "class" in the dict and has "deff" in its list, "class" has "clas", and
\* "fn" is not a key.
AddedKeywords == {"def", "class", "fn"}
AddedMisspellings == {"deff", "clas", "klass", "fn"}

NextAdded ==
  \/ \E c \in AddedKeywords, m \in AddedMisspellings : add_misspelling(c, m)
  \/ \E c \in AddedKeywords : add_keyword(c, NoList)
  \/ \E code \in AddedMisspellings : FixSpelling(code)

SpecAdded == Init /\ [][NextAdded]_vars

====
